---- MODULE Spec2Model ----
(***************************************************************************)
(* Checkpoints IPFS helper (src/index.js): the swarm readiness gate, the   *)
(* DNS version resolver, the hourly tick handler and cleanPins, as a state *)
(* machine over the callbacks of the asynchronous calls the code makes.    *)
(*                                                                         *)
(* Strings are sequences of one-character strings, so that split('/') and  *)
(* pop() are computed, not assumed.  Every asynchronous call (DNS query,   *)
(* pin.add, pin.ls, pin.rm, swarm.peers) is one pending operation whose    *)
(* callback is one action; the promise continuations that run in the same  *)
(* turn of the event loop as a callback belong to that action.             *)
(***************************************************************************)
EXTENDS Naturals, Sequences, FiniteSets

(* ------------------------------------------------------------ bounds --- *)

\* Number of tick chains whose calls can be outstanding at the same time.
MaxChains == 2

Chains == 1..MaxChains

\* Longest TXT string the resolver is exercised with.
MaxStrLen == 3

(* ----------------------------------------------------------- strings --- *)

HashA == <<"A">>
HashB == <<"B">>
HashC == <<"C">>
BlockZ == <<"Z">>

\* Identifiers that may be pinned explicitly: the two published checkpoints
\* and one pin left behind by an earlier run of the process.
Hashes == {HashA, HashB, HashC}

\* The content graph of the store: the blocks an explicitly pinned object
\* retains (they are listed with type 'indirect').
Links(h) ==
  IF h = HashA THEN {BlockZ}
  ELSE IF h = HashB THEN {BlockZ, HashC}
  ELSE {}

\* The value of `var lastIPFSHash` before its first assignment.
Undefined == <<"undefined">>

\* A TXT string of the shape dnslink=/ipfs/<hash>.
Txt(h) == <<"=", "/", "i", "/">> \o h

\* String.prototype.split('/')
RECURSIVE SplitFrom(_, _, _)
SplitFrom(s, i, cur) ==
  IF i > Len(s) THEN <<cur>>
  ELSE IF s[i] = "/" THEN <<cur>> \o SplitFrom(s, i + 1, <<>>)
  ELSE SplitFrom(s, i + 1, Append(cur, s[i]))

Split(s) == SplitFrom(s, 1, <<>>)

\* Array.prototype.shift() on a non-empty array: the first element
Shift(a) == a[1]

\* Array.prototype.pop() on a non-empty array
Pop(a) == a[Len(a)]

(* --------------------------------------------------------------- DNS --- *)

\* What DNS.resolveTxt hands to its callback: an error, or a list of
\* records, each a list of strings.
DnsError == [err |-> TRUE, records |-> <<>>]
DnsRecords(r) == [err |-> FALSE, records |-> r]

DnsAnswers ==
  { DnsError,
    DnsRecords(<<>>),
    DnsRecords(<< <<>> >>),
    DnsRecords(<< <<Txt(HashA)>> >>),
    DnsRecords(<< <<Txt(HashB)>>, <<Txt(HashA)>> >>) }

\* The TXT strings the resolver is exercised with: every string of at most
\* MaxStrLen characters over a slash and two other characters.
Chars == {"/", "a", "b"}
Strings == UNION {[1..n -> Chars] : n \in 0..MaxStrLen}

\* Answers of every shape: an error, no record, an empty first record (alone
\* or followed by a full one), one record of one string, and a first record
\* of several strings followed by another record.
ResolverAnswers ==
  { DnsError,
    DnsRecords(<<>>),
    DnsRecords(<< <<>> >>),
    DnsRecords(<< <<>>, <<Txt(HashA)>> >>) }
  \cup {DnsRecords(<< <<s>> >>) : s \in Strings}
  \cup {DnsRecords(<< <<s, Txt(HashB)>>, <<Txt(HashA)>> >>) : s \in Strings}

Rejected == [ok |-> FALSE, hash |-> <<>>]
Resolved(h) == [ok |-> TRUE, hash |-> h]

\* getLatestCheckpointsIPFSHash without the check of an empty first record:
\* the missing string is taken for an empty hash.
getLatestWithoutEmptyCheck(answer) ==
  IF answer.err THEN Rejected
  ELSE IF Len(answer.records) = 0 THEN Rejected
  ELSE IF Len(answer.records[1]) = 0 THEN Resolved(<<>>)
  ELSE Resolved(Pop(Split(answer.records[1][1])))

\* getLatestCheckpointsIPFSHash: the promise's outcome for a DNS answer.
getLatestCheckpointsIPFSHash(answer) ==
  IF answer.err THEN Rejected
  ELSE IF Len(answer.records) = 0 \/ Len(answer.records[1]) = 0 THEN Rejected
  ELSE Resolved(Pop(Split(answer.records[1][1])))

(* ------------------------------------------------------------- state --- *)

VARIABLES
  ipfsHost,      \* BOOLEAN: a remote node is configured (IPFS_HOST)
  isTesting,     \* BOOLEAN: started with the 'test' argument
  phase,         \* "init" | "waiting" (node.swarm.peers outstanding) |
                 \* "backoff" (setTimeout(check) pending) | "running" |
                 \* "exited"
  peers,         \* what the last callback of node.swarm.peers brought:
                 \* "none" before the first, then "err" | "empty" | "some"
  exitCode,      \* <<>> while the process lives, <<n>> after process.exit(n)
  pinned,        \* the store: the explicitly pinned hashes
  storeFaulty,   \* the store may still fail a call (FALSE: from now on
                 \* every call to the store succeeds when it can)
  lastIPFSHash,  \* var lastIPFSHash
  turn,          \* the chain slot the next tick uses
  pc,            \* per chain: where its promise chain stands
  newHash,       \* per chain: var newHash of the tick handler
  hashToSave,    \* per chain: the argument of cleanPins
  removedPins,   \* per chain: const removedPins of cleanPins
  rmPending,     \* per chain: the pin.rm calls not yet called back
  logged,        \* per chain: what the chain has logged
  quiet          \* per chain: no call of another chain was outstanding
                 \* at any time since this chain's tick

vars == <<ipfsHost, isTesting, phase, peers, exitCode, pinned, storeFaulty,
          lastIPFSHash, turn,
          pc, newHash, hashToSave, removedPins, rmPending, logged, quiet>>

envVars == <<ipfsHost, isTesting, storeFaulty>>
chainVars == <<pc, newHash, hashToSave, removedPins, rmPending, logged, quiet>>

\* A chain is in flight from its tick until its promise chain settles
\* (the last .then ran, or the .catch ran).
InFlight(c) == pc[c] \in {"resolving", "pinning", "listing", "unpinning"}
Settled(c) == pc[c] \in {"idle", "done", "failed"}
\* A settled chain may still have pin.rm calls outstanding: Promise.all
\* rejects at the first failure without waiting for the others.
Active(c) == InFlight(c) \/ rmPending[c] # {}

NoLog == [pinned |-> {}, unpinned |-> {}, warned |-> FALSE]

(* ------------------------------------------------------------- store --- *)

\* node.pin.ls: every explicit pin, and every block an explicit pin retains
\* that is not itself pinned explicitly.
Pinset ==
  {[hash |-> h, type |-> "direct"] : h \in pinned}
  \cup {[hash |-> z, type |-> "indirect"] :
          z \in (UNION {Links(h) : h \in pinned}) \ pinned}

DirectPins == {p.hash : p \in {q \in Pinset : q.type = "direct"}}
IndirectPins == {p.hash : p \in {q \in Pinset : q.type = "indirect"}}

(* ------------------------------------------------- pieces of the code --- *)

\* The tick handler without the comparison: every resolved hash is pinned.
NeedsPinAlways(hash, last) == TRUE

\* `if (hash !== lastIPFSHash)`
NeedsPin(hash, last) == hash # last

\* The forEach of cleanPins without `if (pin.type === 'indirect') return`.
PruneTargetsAnyType(pinset, save) ==
  {p.hash : p \in {q \in pinset : q.hash # save}}

\* The forEach of cleanPins: the pins that get a pin.rm call.
PruneTargets(pinset, save) ==
  {p.hash : p \in {q \in pinset : q.hash # save /\ q.type # "indirect"}}

\* A chain without its .catch: the unhandled rejection ends the process.
PhaseAfterUnhandledRejection == "exited"

\* `.catch(error => Logger.warn(error.toString()))`: the phase of the
\* process after a rejection anywhere in the chain.
PhaseAfterCatch == "running"

\* `process.exit(0)` of the test run's success branch.
TestExitCode == 0

\* `process.exit(0)` of the test run's watchdog.
WatchdogExitCode == 0

NextSlot(c) == IF c = MaxChains THEN 1 ELSE c + 1

(* ------------------------------------------------------------- Init ---- *)

Init ==
  /\ ipfsHost \in BOOLEAN
  /\ isTesting \in BOOLEAN
  /\ phase = "init"
  /\ peers = "none"
  /\ exitCode = <<>>
  /\ pinned \in SUBSET Hashes
  /\ storeFaulty = TRUE
  /\ lastIPFSHash = Undefined
  /\ turn = 1
  /\ pc = [c \in Chains |-> "idle"]
  /\ newHash = [c \in Chains |-> Undefined]
  /\ hashToSave = [c \in Chains |-> Undefined]
  /\ removedPins = [c \in Chains |-> {}]
  /\ rmPending = [c \in Chains |-> {}]
  /\ logged = [c \in Chains |-> NoLog]
  /\ quiet = [c \in Chains |-> TRUE]

(* ---------------------------------------------------------- actions ---- *)

\* The tick handler up to its first asynchronous call: the DNS query of
\* getLatestCheckpointsIPFSHash is issued.  The code has no guard: a tick
\* starts its chain whatever the earlier chains are doing.
StartChain(c) ==
  /\ ~Active(c)
  /\ turn' = NextSlot(c)
  /\ pc' = [pc EXCEPT ![c] = "resolving"]
  /\ newHash' = [newHash EXCEPT ![c] = Undefined]
  /\ hashToSave' = [hashToSave EXCEPT ![c] = Undefined]
  /\ removedPins' = [removedPins EXCEPT ![c] = {}]
  /\ logged' = [logged EXCEPT ![c] = NoLog]
  /\ quiet' = [d \in Chains |->
                 IF d = c THEN \A e \in Chains \ {c} : ~Active(e)
                 ELSE IF Active(d) THEN FALSE ELSE quiet[d]]
  /\ UNCHANGED rmPending

\* The async function reaches the readiness gate (embedded node) or, with
\* a remote node, skips it, creates the timer and ticks right away.
Boot ==
  /\ phase = "init"
  /\ IF ipfsHost
       THEN /\ phase' = "running"
            /\ StartChain(turn)
       ELSE /\ phase' = "waiting"
            /\ UNCHANGED <<turn, chainVars>>
  /\ UNCHANGED <<envVars, peers, exitCode, pinned, lastIPFSHash>>

PeerOutcomes == {"err", "empty", "some"}

\* The callback of node.swarm.peers without the test `peers.length === 0`:
\* an empty list resolves the promise like a peer does.
PeersCallbackNoLengthCheck(outcome) ==
  /\ phase = "waiting"
  /\ peers' = outcome
  /\ IF outcome # "err"
       THEN /\ phase' = "running"
            /\ StartChain(turn)
       ELSE /\ phase' = "backoff"
            /\ UNCHANGED <<turn, chainVars>>
  /\ UNCHANGED <<envVars, exitCode, pinned, lastIPFSHash>>

\* The callback of node.swarm.peers inside isReady: an error and an empty
\* list schedule another check; a peer resolves the promise, after which the
\* timer is created and ticks right away.
PeersCallback(outcome) ==
  /\ phase = "waiting"
  /\ peers' = outcome
  /\ IF outcome = "some"
       THEN /\ phase' = "running"
            /\ StartChain(turn)
       ELSE /\ phase' = "backoff"
            /\ UNCHANGED <<turn, chainVars>>
  /\ UNCHANGED <<envVars, exitCode, pinned, lastIPFSHash>>

\* setTimeout(check, 1000 * 5) fires: node.swarm.peers is called again.
PeersRecheck ==
  /\ phase = "backoff"
  /\ phase' = "waiting"
  /\ UNCHANGED <<envVars, peers, exitCode, pinned, lastIPFSHash, turn,
                 chainVars>>

\* The Metronome fires: timer.on('tick').
Tick ==
  /\ phase = "running"
  /\ StartChain(turn)
  /\ UNCHANGED <<envVars, peers, phase, exitCode, pinned, lastIPFSHash>>

\* The .catch of the chain: one warning, the chain is settled.
Catch(c) ==
  /\ pc' = [pc EXCEPT ![c] = "failed"]
  /\ logged' = [logged EXCEPT ![c].warned = TRUE]
  /\ phase' = PhaseAfterCatch
  /\ exitCode' = IF PhaseAfterCatch = "exited" THEN <<1>> ELSE exitCode

\* cleanPins(lastIPFSHash) up to its asynchronous call: node.pin.ls is issued.
CallCleanPins(c) ==
  /\ hashToSave' = [hashToSave EXCEPT ![c] = lastIPFSHash]
  /\ pc' = [pc EXCEPT ![c] = "listing"]

\* The tick handler with cleanPins called only after a pin.add: a tick that
\* finds the hash unchanged ends at once.
DnsCallbackPrunesOnlyAfterPin(c, answer) ==
  /\ phase = "running"
  /\ pc[c] = "resolving"
  /\ LET r == getLatestCheckpointsIPFSHash(answer) IN
     IF ~r.ok
       THEN /\ Catch(c)
            /\ UNCHANGED <<lastIPFSHash, newHash, hashToSave>>
       ELSE /\ newHash' = [newHash EXCEPT ![c] = r.hash]
            /\ UNCHANGED <<logged, phase, exitCode, hashToSave>>
            /\ IF NeedsPin(r.hash, lastIPFSHash)
                 THEN /\ lastIPFSHash' = r.hash
                      /\ pc' = [pc EXCEPT ![c] = "pinning"]
                 ELSE /\ UNCHANGED lastIPFSHash
                      /\ pc' = [pc EXCEPT ![c] = "done"]
  /\ UNCHANGED <<envVars, peers, pinned, turn, removedPins, rmPending, quiet>>

\* The callback of DNS.resolveTxt, and the first .then of the chain when the
\* promise resolves: a changed hash is recorded and pin.add is issued; an
\* unchanged one goes straight on (Promise.all of nothing) to cleanPins.
DnsCallback(c, answer) ==
  /\ phase = "running"
  /\ pc[c] = "resolving"
  /\ LET r == getLatestCheckpointsIPFSHash(answer) IN
     IF ~r.ok
       THEN /\ Catch(c)
            /\ UNCHANGED <<lastIPFSHash, newHash, hashToSave>>
       ELSE /\ newHash' = [newHash EXCEPT ![c] = r.hash]
            /\ UNCHANGED <<logged, phase, exitCode>>
            /\ IF NeedsPin(r.hash, lastIPFSHash)
                 THEN /\ lastIPFSHash' = r.hash
                      /\ pc' = [pc EXCEPT ![c] = "pinning"]
                      /\ UNCHANGED hashToSave
                 ELSE /\ UNCHANGED lastIPFSHash
                      /\ CallCleanPins(c)
  /\ UNCHANGED <<envVars, peers, pinned, turn, removedPins, rmPending, quiet>>

\* The second .then without `if (isTesting) process.exit(0)`: a test run
\* goes on to cleanPins like a normal run.
PinAddOkKeepsRunning(c) ==
  /\ phase = "running"
  /\ pc[c] = "pinning"
  /\ pinned' = pinned \cup {newHash[c]}
  /\ logged' = [logged EXCEPT ![c].pinned = @ \cup {newHash[c]}]
  /\ CallCleanPins(c)
  /\ UNCHANGED <<envVars, peers, phase, exitCode, lastIPFSHash, turn, newHash,
                 removedPins, rmPending, quiet>>

\* node.pin.add resolves: the second .then logs, ends a test run with
\* process.exit(0), and otherwise calls cleanPins.
PinAddOk(c) ==
  /\ phase = "running"
  /\ pc[c] = "pinning"
  /\ pinned' = pinned \cup {newHash[c]}
  /\ logged' = [logged EXCEPT ![c].pinned = @ \cup {newHash[c]}]
  /\ IF isTesting
       THEN /\ phase' = "exited"
            /\ exitCode' = <<TestExitCode>>
            /\ UNCHANGED <<pc, hashToSave>>
       ELSE /\ CallCleanPins(c)
            /\ UNCHANGED <<phase, exitCode>>
  /\ UNCHANGED <<envVars, peers, lastIPFSHash, turn, newHash, removedPins,
                 rmPending, quiet>>

\* node.pin.add rejects and the rejection is swallowed before Promise.all:
\* the second .then runs as after a success.
PinAddFailSwallowed(c) ==
  /\ phase = "running"
  /\ storeFaulty
  /\ pc[c] = "pinning"
  /\ logged' = [logged EXCEPT ![c].pinned = @ \cup {newHash[c]}]
  /\ CallCleanPins(c)
  /\ UNCHANGED <<envVars, peers, phase, exitCode, pinned, lastIPFSHash, turn,
                 newHash, removedPins, rmPending, quiet>>

\* node.pin.add rejects.
PinAddFail(c) ==
  /\ phase = "running"
  /\ storeFaulty
  /\ pc[c] = "pinning"
  /\ Catch(c)
  /\ UNCHANGED <<envVars, peers, pinned, lastIPFSHash, turn, newHash, hashToSave,
                 removedPins, rmPending, quiet>>

\* The callback of node.pin.ls without `if (err) return reject(err)`:
\* pinset.forEach throws inside the callback, outside every promise, and the
\* uncaught exception ends the process.
ListFailCrashes(c) ==
  /\ phase = "running"
  /\ storeFaulty
  /\ pc[c] = "listing"
  /\ pc' = [pc EXCEPT ![c] = "failed"]
  /\ phase' = "exited"
  /\ exitCode' = <<1>>
  /\ UNCHANGED <<envVars, peers, pinned, lastIPFSHash, turn, newHash, hashToSave,
                 removedPins, rmPending, logged, quiet>>

\* node.pin.ls calls back with an error.
ListFail(c) ==
  /\ phase = "running"
  /\ storeFaulty
  /\ pc[c] = "listing"
  /\ Catch(c)
  /\ UNCHANGED <<envVars, peers, pinned, lastIPFSHash, turn, newHash, hashToSave,
                 removedPins, rmPending, quiet>>

\* The last .then of the chain: one warning line per entry of removedPins.
LogUnpinned(c) ==
  logged' = [logged EXCEPT ![c].unpinned = removedPins'[c]]

\* node.pin.ls calls back with the pinset: every pin.rm is issued in the
\* same forEach; with nothing to remove the chain ends at once.
ListOk(c) ==
  /\ phase = "running"
  /\ pc[c] = "listing"
  /\ LET targets == PruneTargets(Pinset, hashToSave[c]) IN
     /\ removedPins' = [removedPins EXCEPT ![c] = targets]
     /\ rmPending' = [rmPending EXCEPT ![c] = targets]
     /\ IF targets = {}
          THEN /\ pc' = [pc EXCEPT ![c] = "done"]
               /\ LogUnpinned(c)
          ELSE /\ pc' = [pc EXCEPT ![c] = "unpinning"]
               /\ UNCHANGED logged
  /\ UNCHANGED <<envVars, peers, phase, exitCode, pinned, lastIPFSHash, turn,
                 newHash, hashToSave, quiet>>

\* node.pin.rm(h) calls back without error: the pin is gone; when it was the
\* last one outstanding and none failed, Promise.all resolves.
RmOk(c, h) ==
  /\ phase = "running"
  /\ h \in rmPending[c]
  /\ h \in pinned
  /\ pinned' = pinned \ {h}
  /\ rmPending' = [rmPending EXCEPT ![c] = @ \ {h}]
  /\ IF pc[c] = "unpinning" /\ rmPending[c] = {h}
       THEN /\ pc' = [pc EXCEPT ![c] = "done"]
            /\ removedPins' = removedPins
            /\ LogUnpinned(c)
       ELSE UNCHANGED <<pc, removedPins, logged>>
  /\ UNCHANGED <<envVars, peers, phase, exitCode, lastIPFSHash, turn, newHash,
                 hashToSave, quiet>>

\* The callback of node.pin.rm(h) with an error: Promise.all rejects at
\* the first one, the later ones change nothing.
RmError(c, h) ==
  /\ rmPending' = [rmPending EXCEPT ![c] = @ \ {h}]
  /\ IF pc[c] = "unpinning"
       THEN Catch(c)
       ELSE UNCHANGED <<pc, logged, phase, exitCode>>
  /\ UNCHANGED <<envVars, peers, pinned, lastIPFSHash, turn, newHash, hashToSave,
                 removedPins, quiet>>

\* pin.rm of a hash that is not pinned (another call removed it first).
RmNotPinned(c, h) ==
  /\ phase = "running"
  /\ h \in rmPending[c]
  /\ h \notin pinned
  /\ RmError(c, h)

\* pin.rm of a pinned hash fails in the store.
RmFail(c, h) ==
  /\ phase = "running"
  /\ storeFaulty
  /\ h \in rmPending[c]
  /\ h \in pinned
  /\ RmError(c, h)

\* The setTimeout of a test run expires.
Watchdog ==
  /\ isTesting
  /\ phase = "running"
  /\ phase' = "exited"
  /\ exitCode' = <<WatchdogExitCode>>
  /\ UNCHANGED <<envVars, peers, pinned, lastIPFSHash, turn, chainVars>>

\* The environment: the store's transient trouble is over.
FaultsCease ==
  /\ storeFaulty
  /\ storeFaulty' = FALSE
  /\ UNCHANGED <<ipfsHost, isTesting, phase, peers, exitCode, pinned,
                 lastIPFSHash, turn, chainVars>>

Next ==
  \/ FaultsCease
  \/ Boot
  \/ \E o \in PeerOutcomes : PeersCallback(o)
  \/ PeersRecheck
  \/ Tick
  \/ \E c \in Chains, a \in DnsAnswers : DnsCallback(c, a)
  \/ \E c \in Chains : PinAddOk(c)
  \/ \E c \in Chains : PinAddFail(c)
  \/ \E c \in Chains : ListOk(c)
  \/ \E c \in Chains : ListFail(c)
  \/ \E c \in Chains, h \in Hashes : RmOk(c, h)
  \/ \E c \in Chains, h \in Hashes : RmNotPinned(c, h)
  \/ \E c \in Chains, h \in Hashes : RmFail(c, h)
  \/ Watchdog

Spec == Init /\ [][Next]_vars

(* ------------------------------------------- the resolver on its own --- *)

\* A remote node, a run that is no test, an empty store that answers no
\* call: what is left is the timer and the DNS queries of its ticks.
ResolverInit ==
  /\ Init
  /\ ipfsHost
  /\ ~isTesting
  /\ pinned = {}

ResolverNext ==
  \/ Boot
  \/ Tick
  \/ \E c \in Chains, a \in ResolverAnswers : DnsCallback(c, a)

ResolverSpec == ResolverInit /\ [][ResolverNext]_vars

(* ------------------------------------- the scenario of a stable record --- *)

\* The DNS record stays at one identifier and the query never fails.
StableAnswer == DnsRecords(<< <<Txt(HashA)>> >>)

NextStable ==
  \/ FaultsCease
  \/ Boot
  \/ \E o \in PeerOutcomes : PeersCallback(o)
  \/ PeersRecheck
  \/ Tick
  \/ \E c \in Chains : DnsCallback(c, StableAnswer)
  \/ \E c \in Chains : PinAddOk(c)
  \/ \E c \in Chains : PinAddFail(c)
  \/ \E c \in Chains : ListOk(c)
  \/ \E c \in Chains : ListFail(c)
  \/ \E c \in Chains, h \in Hashes : RmOk(c, h)
  \/ \E c \in Chains, h \in Hashes : RmNotPinned(c, h)
  \/ \E c \in Chains, h \in Hashes : RmFail(c, h)
  \/ Watchdog

\* The event loop runs every callback that is due: the process starts, the
\* timer keeps ticking, the DNS answers, and the store completes each call
\* (a call that may still fail completes one way or the other).  Nothing
\* obliges the store's trouble to end, a peer to appear or the watchdog of a
\* test run to fire.
Fairness ==
  /\ WF_vars(Boot)
  /\ WF_vars(PeersRecheck)
  /\ WF_vars(Tick)
  /\ \A c \in Chains :
       /\ WF_vars(DnsCallback(c, StableAnswer))
       /\ WF_vars(PinAddOk(c))
       /\ WF_vars(ListOk(c))
       /\ \A h \in Hashes : WF_vars(RmOk(c, h) \/ RmNotPinned(c, h))

StableSpec == Init /\ [][NextStable]_vars /\ Fairness

(* ------------------------------------------------------------ claims --- *)

\* The step in which chain c settles without having met any error: the last
\* .then of its chain has run.
Completes(c) == pc[c] # "done" /\ pc'[c] = "done"

\* The chain's pin.add was rejected: it settled in the .catch with a hash
\* resolved and cleanPins never called.
PinAddFailed(c) ==
  pc[c] = "failed" /\ newHash[c] # Undefined /\ hashToSave[c] = Undefined

\* C1: after every tick that completes without error, the Direct pins of the
\* store are exactly {lastIPFSHash}.  Stated for the ticks during which no
\* call of another tick was outstanding, so that no pin is in flight when
\* the tick completes.
C1_DirectIsLastAfterCleanTick ==
  [][\A c \in Chains :
       (Completes(c) /\ quiet'[c]) => DirectPins' = {lastIPFSHash'}]_vars

\* C2: lastIPFSHash changes to a new identifier only in the step in which the
\* pin.add of that identifier succeeds, and after a failed pin.add it does
\* not hold the identifier whose pin.add failed.
C2_LastChangesOnlyAfterPinAdd ==
  [][/\ lastIPFSHash' # lastIPFSHash =>
          \E c \in Chains : /\ pc[c] = "pinning"
                            /\ pc'[c] # "failed"
                            /\ newHash[c] = lastIPFSHash'
                            /\ lastIPFSHash' \in pinned'
     /\ \A c \in Chains :
          (pc[c] = "pinning" /\ pc'[c] = "failed") =>
             lastIPFSHash' # newHash[c]]_vars

\* C3: the record stays at Y, a pin.add(Y) has failed and the store has
\* stopped failing: eventually Y is the one Direct pin.
C3_RetryAfterFailedPinAdd ==
  ( /\ phase = "running"
    /\ ~isTesting
    /\ ~storeFaulty
    /\ \E c \in Chains : PinAddFailed(c) /\ newHash[c] = HashA )
  ~> (DirectPins = {HashA})

\* C4: at most one reconciliation chain is in flight at any time.
C4_OneChainInFlight ==
  Cardinality({c \in Chains : InFlight(c)}) <= 1

\* The pinset of the example: A pinned directly, Z retained by it.
DirectA_IndirectZ ==
  { [hash |-> HashA, type |-> "direct"],
    [hash |-> BlockZ, type |-> "indirect"] }

\* The pin.rm calls chain c issues in a step.
IssuedRemovals(c) == rmPending'[c] \ rmPending[c]

\* C5: no pin.rm is ever issued for a pin that the store lists as indirect;
\* and a pass that resolved A and prunes for A (as every pass does that runs
\* on its own) issues no pin.rm at all when the pinset is
\* {A direct, Z indirect}.
C5_NeverRemovesIndirect ==
  [][\A c \in Chains :
       /\ IssuedRemovals(c) \cap IndirectPins = {}
       /\ ( /\ pc[c] = "listing"
            /\ pc'[c] \in {"unpinning", "done"}
            /\ Pinset = DirectA_IndirectZ
            /\ newHash[c] = HashA
            /\ (quiet[c] \/ hashToSave[c] = HashA) )
          => (rmPending'[c] = {} /\ removedPins'[c] = {} /\ pc'[c] = "done")
    ]_vars

\* A chain has just issued its removals while the store lists an indirect pin.
C5_Witness ==
  \E c \in Chains :
    /\ pc[c] = "unpinning"
    /\ rmPending[c] = removedPins[c]
    /\ rmPending[c] \subseteq pinned
    /\ IndirectPins # {}

\* C6: a single pass that runs on its own and meets no error leaves the
\* Direct pins exactly {A}, A being the identifier it resolved, and has asked
\* for the removal of no indirect pin.
C6_ConvergesInOnePass ==
  [][\A c \in Chains :
       /\ (Completes(c) /\ quiet'[c]) => DirectPins' = {newHash[c]}
       /\ IssuedRemovals(c) \cap IndirectPins = {}]_vars

\* P is the latest tick, it ran on its own and completed without error.
AfterFirst(P) ==
  pc[P] = "done" /\ quiet[P] /\ turn = NextSlot(P)

\* L is the tick after P, started after P completed without error; both ran
\* on their own and L has not resolved another identifier than P.
SecondPass(P, L) ==
  /\ L = NextSlot(P)
  /\ turn = NextSlot(L)
  /\ pc[P] = "done" /\ quiet[P]
  /\ pc[L] # "idle" /\ quiet[L]
  /\ newHash[L] \in {Undefined, newHash[P]}

\* C7: from the end of a pass that completed without error, through a second
\* pass that resolves the same identifier, the explicit pins of the store do
\* not change, and the second pass issues no pin.add and no pin.rm.
C7_Idempotent ==
  [][\A P \in Chains :
       LET L == NextSlot(P) IN
       ( /\ AfterFirst(P) \/ SecondPass(P, L)
         /\ AfterFirst(P)' \/ SecondPass(P, L)' )
       => /\ pinned' = pinned
          /\ SecondPass(P, L)' =>
               /\ pc'[L] # "pinning"
               /\ logged'[L].pinned = {}
               /\ removedPins'[L] = {}
               /\ rmPending'[L] = {}]_vars

\* The first pass pinned and pruned; the second, with the same identifier,
\* has completed.
C7_Witness ==
  \E P \in Chains :
    /\ SecondPass(P, NextSlot(P))
    /\ pc[NextSlot(P)] = "done"
    /\ newHash[NextSlot(P)] = newHash[P]
    /\ logged[P].pinned # {}
    /\ removedPins[P] # {}

\* C8: a pass resolved X and completed; the next pass resolves Y # X and
\* completes: it has logged exactly the pin of Y, has asked for the removal
\* of X, and lastIPFSHash is Y.
C8_ChangeDetection ==
  [][\A P \in Chains :
       LET L == NextSlot(P) IN
       ( /\ Completes(L)
         /\ turn = NextSlot(L)
         /\ pc[P] = "done" /\ quiet[P] /\ quiet[L]
         /\ newHash[P] # newHash[L] )
       => /\ logged'[L].pinned = {newHash[L]}
          /\ newHash[P] \in removedPins'[L]
          /\ lastIPFSHash' = newHash[L]]_vars

\* The DNS answers for which the resolver must fail.
FailingAnswers == {DnsError, DnsRecords(<<>>), DnsRecords(<< <<>> >>)}

\* C9: the callback of a failed resolution settles the chain and changes
\* neither lastIPFSHash nor the store, and the chain has issued no pin.add,
\* pin.ls or pin.rm; and every chain that starts, starts with a DNS query and
\* no hash.
C9_FailedResolutionChangesNothing ==
  [][\A c \in Chains :
       /\ \A a \in FailingAnswers :
            DnsCallback(c, a) =>
              /\ pc'[c] = "failed"
              /\ lastIPFSHash' = lastIPFSHash
              /\ pinned' = pinned
              /\ rmPending' = rmPending
              /\ removedPins'[c] = {}
              /\ hashToSave'[c] = Undefined
              /\ logged'[c].pinned = {}
       /\ (~InFlight(c) /\ InFlight(c)') =>
            (pc'[c] = "resolving" /\ newHash'[c] = Undefined)]_vars

\* A tick failed to resolve, and the tick after it is resolving.
C9_Witness ==
  \E c \in Chains :
    /\ pc[c] = "failed" /\ newHash[c] = Undefined /\ quiet[c]
    /\ pc[NextSlot(c)] = "resolving" /\ quiet[NextSlot(c)]
    /\ turn = NextSlot(NextSlot(c))
    /\ pinned # {} /\ lastIPFSHash # Undefined

\* C10: outside a test run the process never exits, and a chain that meets an
\* error is settled with one warning while the process keeps running.
C10_ErrorsNeverEndTheProcess ==
  [][~isTesting =>
       /\ phase' # "exited"
       /\ exitCode' = <<>>
       /\ \A c \in Chains :
            (InFlight(c) /\ pc'[c] = "failed") =>
               /\ logged'[c].warned
               /\ phase' = "running"
               /\ Settled(c)']_vars

\* Outside a test run a removal failed, and a later tick is under way.
C10_Witness ==
  /\ ~isTesting
  /\ phase = "running"
  /\ \E c \in Chains :
       /\ pc[c] = "failed" /\ logged[c].warned /\ removedPins[c] # {}
       /\ InFlight(NextSlot(c)) /\ quiet[NextSlot(c)]

\* No pin.add has succeeded in this run of the process.
NothingPinned == \A c \in Chains : logged[c].pinned = {}

\* C11: a test run that ends with no pin.add having succeeded (the watchdog
\* expired) ends with a non-zero exit status.
C11_WatchdogExitsNonZero ==
  (isTesting /\ phase = "exited" /\ NothingPinned) => exitCode # <<0>>

\* The variables the process itself writes.
programVars ==
  <<phase, exitCode, pinned, lastIPFSHash, turn, chainVars>>

\* The step in which the pin.add of chain c succeeds: its line
\* 'Pinned successfully' is logged.
PinSucceeds(c) == logged'[c].pinned \ logged[c].pinned # {}

\* C12: in a test run the step of the first successful pin.add ends the
\* process with status 0 without calling cleanPins, and nothing happens
\* after the process has ended; in a normal run a successful pin.add leaves
\* the process running and calls cleanPins.
C12_TestRunExitsOnFirstPin ==
  [][/\ \A c \in Chains :
          PinSucceeds(c) =>
            IF isTesting
              THEN /\ phase' = "exited" /\ exitCode' = <<0>>
                   /\ pc'[c] = "pinning"
                   /\ hashToSave'[c] = Undefined
                   /\ rmPending' = rmPending
              ELSE /\ phase' = "running" /\ exitCode' = <<>>
                   /\ pc'[c] = "listing"
     /\ phase = "exited" => UNCHANGED programVars
     /\ ~isTesting => phase' # "exited"]_vars

\* A test run has ended on its first successful pin.add.
C12_Witness ==
  /\ isTesting
  /\ phase = "exited"
  /\ exitCode = <<0>>
  /\ \E c \in Chains : pc[c] = "pinning" /\ logged[c].pinned = {newHash[c]}
                       /\ newHash[c] \in pinned

\* Some tick has happened: a chain has left its initial state.
Ticked == \E c \in Chains : pc[c] # "idle"

\* The state of the readiness gate.
GateHolds ==
  /\ (Ticked \/ phase \in {"running", "exited"}) =>
       peers = (IF ipfsHost THEN "none" ELSE "some")
  /\ phase \in {"waiting", "backoff"} =>
       ~ipfsHost /\ ~Ticked /\ lastIPFSHash = Undefined
  /\ phase = "backoff" => peers \in {"err", "empty"}

\* C13: with the embedded node no tick happens before a poll of the peers
\* has brought at least one peer; a poll that fails or brings no peer only
\* schedules the next poll; with a remote node the first tick happens
\* without any poll.
C13_ReadinessGate ==
  [][/\ GateHolds'
     /\ (phase = "waiting" /\ phase' # "waiting") =>
          IF peers' = "some" THEN phase' = "running" /\ Ticked'
                             ELSE phase' = "backoff"
     /\ (phase = "backoff" /\ phase' # "backoff") =>
          phase' = "waiting" /\ peers' = peers
     /\ (phase = "init" /\ phase' # "init") =>
          IF ipfsHost THEN phase' = "running" /\ Ticked'
                      ELSE phase' = "waiting"]_vars

\* The embedded node found a peer and the first tick's query is out.
C13_Witness ==
  /\ ~ipfsHost
  /\ phase = "running"
  /\ peers = "some"
  /\ pc[1] = "resolving"
  /\ \A c \in Chains \ {1} : pc[c] = "idle"

\* C14: whatever the interleaving of the chains, no pin.rm is issued for the
\* hash that lastIPFSHash holds when the call is issued.
C14_NeverRemovesCurrent ==
  [][\A c \in Chains : lastIPFSHash \notin IssuedRemovals(c)]_vars

\* The step in which node.pin.ls of chain c calls back with the pinset.
Lists(c) == pc[c] = "listing" /\ pc'[c] \in {"unpinning", "done"}

\* The step in which a pin.rm of chain c calls back.
RmCallsBack(c) == rmPending'[c] # rmPending[c] /\ rmPending'[c] \subseteq rmPending[c]

\* C15: the listing step issues a pin.rm for every Direct pin other than
\* lastIPFSHash, and the callback of one pin.rm, failed or not, leaves every
\* other pin.rm of the batch issued.
C15_EveryStalePinIsRequested ==
  [][\A c \in Chains :
       /\ Lists(c) => IssuedRemovals(c) = DirectPins \ {lastIPFSHash}
       /\ RmCallsBack(c) =>
            /\ Cardinality(rmPending[c] \ rmPending'[c]) = 1
            /\ removedPins'[c] = removedPins[c]]_vars

\* C16: when the last pin.rm of a chain that ran on its own has called back,
\* the hashes logged as unpinned are exactly those of its batch that the
\* store no longer pins.
C16_ReportsExactlyTheRemoved ==
  [][\A c \in Chains :
       (RmCallsBack(c) /\ rmPending'[c] = {} /\ quiet'[c]) =>
         logged'[c].unpinned = removedPins'[c] \ pinned']_vars

\* The chain of c ended because node.pin.ls called back with an error.
ListFailed(c) ==
  pc[c] = "failed" /\ hashToSave[c] # Undefined /\ removedPins[c] = {}

\* C17: the step in which pin.ls fails issues no pin.rm, changes neither the
\* store nor lastIPFSHash and only logs the error; the chain issues no pin.rm
\* afterwards; and while the process lives a later tick calls pin.ls again.
C17_ListFailureAbortsPruning ==
  /\ [][\A c \in Chains :
          /\ (pc[c] = "listing" /\ pc'[c] = "failed") =>
               /\ ListFailed(c)'
               /\ rmPending' = rmPending
               /\ pinned' = pinned
               /\ lastIPFSHash' = lastIPFSHash
               /\ logged'[c] = [logged[c] EXCEPT !.warned = TRUE]
               /\ phase' = "running"
          /\ ListFailed(c) => IssuedRemovals(c) = {}]_vars
  /\ \A c \in Chains :
       (ListFailed(c) /\ quiet[c])
         ~> (phase = "exited" \/ \E d \in Chains : pc[d] = "listing")

\* pin.ls failed for one tick with a stale pin in the store, and the next
\* tick's pruning has issued its removals.
C17_Witness ==
  \E c, d \in Chains :
    /\ c # d
    /\ ListFailed(c)
    /\ quiet[d]
    /\ pc[d] = "unpinning"
    /\ rmPending[d] # {}
    /\ lastIPFSHash = hashToSave[c]

\* The step in which the DNS query of chain c brings a hash.
Resolves(c) ==
  pc[c] = "resolving" /\ pc'[c] # "resolving" /\ ~logged'[c].warned

\* C18: a tick that resolves the hash lastIPFSHash already holds calls
\* cleanPins at once, with no pin.add; a tick whose pin.add succeeds calls it
\* unless the success ends a test run; cleanPins asks the store to remove
\* every Direct pin but the hash it was called with, and a removal that
\* calls back without error has removed the pin.  A tick whose pin.add
\* failed never calls cleanPins.
C18_PrunesOnEveryResolvedTick ==
  [][\A c \in Chains :
       /\ Resolves(c) =>
            IF newHash'[c] = lastIPFSHash
              THEN /\ pc'[c] = "listing"
                   /\ hashToSave'[c] = newHash'[c]
                   /\ lastIPFSHash' = lastIPFSHash
              ELSE pc'[c] = "pinning"
       /\ PinSucceeds(c) =>
            IF isTesting THEN phase' = "exited"
                         ELSE pc'[c] = "listing" /\ hashToSave'[c] = lastIPFSHash
       /\ Lists(c) => IssuedRemovals(c) = DirectPins \ {hashToSave[c]}
       /\ (RmCallsBack(c) /\ pc[c] = "unpinning" /\ pc'[c] # "failed") =>
            (rmPending[c] \ rmPending'[c]) \cap pinned' = {}
       /\ (pc[c] = "pinning" /\ pc'[c] = "failed") =>
            hashToSave'[c] = Undefined /\ rmPending' = rmPending
       /\ pc[c] = "failed" =>
            pc'[c] \in {"failed", "resolving"} /\ IssuedRemovals(c) = {}]_vars

\* A tick that found the hash unchanged has completed on its own and has
\* removed a stale pin.
C18_Witness ==
  \E c \in Chains :
    /\ pc[c] = "done"
    /\ quiet[c]
    /\ newHash[c] = lastIPFSHash
    /\ logged[c].pinned = {}
    /\ logged[c].unpinned # {}
    /\ DirectPins = {lastIPFSHash}

\* The step in which chain c issues node.pin.add.
IssuesPinAdd(c) == pc[c] # "pinning" /\ pc'[c] = "pinning"

\* C19: pin.add is issued only by the callback of the tick's DNS query and
\* only for a hash other than the one lastIPFSHash held; the line 'Pinned
\* successfully' is logged in the step in which that pin.add succeeds, for
\* the hash of that pin.add, and in no other step; a rejected pin.add logs
\* none, and a tick logs at most one.
C19_PinAddOnlyOnChange ==
  [][\A c \in Chains :
       /\ IssuesPinAdd(c) =>
            /\ pc[c] = "resolving"
            /\ newHash'[c] # lastIPFSHash
            /\ logged'[c].pinned = {}
       /\ pc[c] \in {"listing", "unpinning", "done", "failed"} =>
            ~IssuesPinAdd(c)
       /\ logged'[c].pinned # logged[c].pinned =>
            IF pc'[c] = "resolving"
              THEN logged'[c].pinned = {}
              ELSE /\ pc[c] = "pinning"
                   /\ logged[c].pinned = {}
                   /\ logged'[c].pinned = {newHash[c]}
                   /\ newHash[c] \in pinned'
       /\ (pc[c] = "pinning" /\ pc'[c] = "listing") => PinSucceeds(c)
       /\ (pc[c] = "pinning" /\ pc'[c] = "failed") => ~PinSucceeds(c)]_vars

\* One tick has pinned a new hash and logged it, the next has found the
\* hash unchanged, issued no pin.add and logged none.
C19_Witness ==
  \E c, d \in Chains :
    /\ c # d
    /\ pc[c] = "done" /\ logged[c].pinned = {newHash[c]}
    /\ pc[d] = "done" /\ logged[d].pinned = {}
    /\ quiet[d]
    /\ newHash[d] = newHash[c]
    /\ lastIPFSHash = newHash[c]

\* The part of string s after its last slash, all of s when it has none.
AfterLastSlash(s) ==
  LET slashes == {i \in 1..Len(s) : s[i] = "/"} IN
  IF slashes = {} THEN s
  ELSE LET last == CHOOSE i \in slashes : \A j \in slashes : j <= i IN
       SubSeq(s, last + 1, Len(s))

\* The answers for which the resolver has to fail.
NoRecord(a) ==
  a.err \/ Len(a.records) = 0 \/ Len(a.records[1]) = 0

\* C20: the callback of the tick's one DNS query hands the tick the part
\* after the last slash of the first string of the first record, whatever
\* the earlier answers were; on an error, no record or an empty first record
\* it fails the tick, which logs the error and asks nothing again.
C20_ResolverTakesLastSegment ==
  [][\A c \in Chains :
       /\ \A a \in ResolverAnswers :
            DnsCallback(c, a) =>
              IF NoRecord(a)
                THEN /\ pc'[c] = "failed"
                     /\ logged'[c].warned
                     /\ newHash'[c] = Undefined
                     /\ lastIPFSHash' = lastIPFSHash
                ELSE /\ pc'[c] \in {"pinning", "listing"}
                     /\ ~logged'[c].warned
                     /\ newHash'[c] = AfterLastSlash(a.records[1][1])
       /\ (pc[c] = "resolving" /\ pc'[c] # "resolving") =>
            \E a \in ResolverAnswers : DnsCallback(c, a)
       /\ pc[c] # "resolving" => newHash'[c] = newHash[c] \/ pc'[c] = "resolving"]_vars

\* One tick got a string ending in a slash (or an empty one) and took the
\* empty last segment, another got an answer without a usable record.
C20_Witness ==
  \E c, d \in Chains :
    /\ pc[c] = "pinning" /\ newHash[c] = <<>>
    /\ pc[d] = "failed" /\ newHash[d] = Undefined /\ logged[d].warned

====
